---- MODULE Spec2Model ----
(***************************************************************************)
(* vault-jwt-secrets: the "config" path (plugin/path_config.go) and the    *)
(* "jwks" path (plugin/path_jwks.go) as state machines over the mount's    *)
(* storage record and the key policy.                                      *)
(***************************************************************************)
EXTENDS Integers, Sequences, FiniteSets, TLC

VARIABLES
    stored,       \* the record at configPath in req.Storage: <<>> (absent) or <<Config>>
    maxLeaseTTL,  \* b.System().MaxLeaseTTL(), in seconds
    last,         \* the last config request served: operation, named fields, record existed
    resp,         \* the response of the last config request
    nOps,         \* config requests served so far
    policy,       \* the key policy getPolicy returns
    pc,           \* each getPublicKeys call's position
    loc,          \* each getPublicKeys call's locals: config, version, keyIdx, jwkSet
    ret,          \* each getPublicKeys call's return value
    lock,         \* the policy's lock: read locks held per call, the write holder, Unlock calls
    rot,          \* the key rotation's position: "idle", "waiting", "holding"
    cw            \* two concurrent config writes: positions, requests, configs read, event log

configVars == <<stored, maxLeaseTTL, last, resp, nOps>>
configVarsRest == <<maxLeaseTTL, last, resp, nOps>>
jwksVars == <<policy, pc, loc, ret, lock, rot>>
vars == <<stored, maxLeaseTTL, last, resp, nOps, policy, pc, loc, ret, lock, rot, cw>>

\* ------------------------------------------------------------------ bounds

\* Config requests per behaviour.
MaxOps == 2

\* Key versions a policy may hold.
MaxVersion == 4

\* Concurrent getPublicKeys calls.
NumCallers == 2

\* ------------------------------------------------------- field names (const block)

keySignatureAlgorithm == "sig_alg"
keyRSAKeyBits == "rsa_key_bits"
keyRotationDuration == "key_ttl"
keyTokenTTL == "jwt_ttl"
keySetIAT == "set_iat"
keySetJTI == "set_jti"
keySetNBF == "set_nbf"
keyIssuer == "issuer"
keyAudiencePattern == "audience_pattern"
keySubjectPattern == "subject_pattern"
keyMaxAllowedAudiences == "max_audiences"
keyAllowedClaims == "allowed_claims"

\* The schema of the path: the fields a request may name, in the handler's check order
\* (issuer, which the handler never reads, last).
Fields ==
    <<keySignatureAlgorithm, keyRSAKeyBits, keyRotationDuration, keyTokenTTL,
      keySetIAT, keySetJTI, keySetNBF, keyAudiencePattern, keySubjectPattern,
      keyMaxAllowedAudiences, keyAllowedClaims, keyIssuer>>

FieldSet == {Fields[i] : i \in 1..Len(Fields)}

\* ------------------------------------------------- enumerations fixed outside src/

AllowedSignatureAlgorithmNames == <<"ES256", "ES384", "ES512", "RS256", "RS384", "RS512">>

AllowedRSAKeyBits == <<2048, 3072, 4096>>

ReservedClaims == <<"exp", "iat", "iss", "jti", "nbf">>

DefaultTokenTTL == 180

DefaultConfig ==
    [ SignatureAlgorithm |-> "ES256",
      RSAKeyBits         |-> 2048,
      KeyRotationPeriod  |-> 900,
      TokenTTL           |-> DefaultTokenTTL,
      SetIAT             |-> TRUE,
      SetJTI             |-> TRUE,
      SetNBF             |-> TRUE,
      Issuer             |-> "",
      AudiencePattern    |-> ".*",
      SubjectPattern     |-> ".*",
      MaxAudiences       |-> -1,
      AllowedClaims      |-> <<"aud", "sub">> ]

\* ------------------------------------------------------------- library functions

\* A duration string is the sequence of its <<number, unit>> terms: "1h30m" is
\* <<<<1, "h">>, <<30, "m">>>>.  Durations are whole seconds.
UnitSeconds(unit) ==
    CASE unit = "s" -> 1
      [] unit = "m" -> 60
      [] unit = "h" -> 3600
      [] OTHER -> 0

KnownUnits == {"s", "m", "h"}

RECURSIVE SumTerms(_)
SumTerms(terms) ==
    IF terms = <<>> THEN 0
    ELSE Head(terms)[1] * UnitSeconds(Head(terms)[2]) + SumTerms(Tail(terms))

\* time.ParseDuration: an error for the empty string and for an unknown unit.
ParseDuration(s) ==
    IF s = <<>> \/ \E i \in 1..Len(s) : s[i][2] \notin KnownUnits
    THEN [err |-> TRUE, d |-> 0]
    ELSE [err |-> FALSE, d |-> SumTerms(s)]

\* time.Duration.String: "0s", "45s", "3m0s", "1h0m0s".
DurationString(d) ==
    IF d >= 3600
    THEN <<<<d \div 3600, "h">>, <<(d % 3600) \div 60, "m">>, <<d % 60, "s">>>>
    ELSE IF d >= 60
    THEN <<<<d \div 60, "m">>, <<d % 60, "s">>>>
    ELSE <<<<d, "s">>>>

\* regexp.Compile on the patterns the requests use: an unclosed group or class
\* does not compile.
RegexpCompiles(p) == p \notin {"(", "[a"}

stringInSlice(a, list) == \E i \in 1..Len(list) : list[i] = a

intInSlice(a, list) == \E i \in 1..Len(list) : list[i] = a

\* ------------------------------------------------------------------ requests

StrV(v) == [t |-> "string", v |-> v]
IntV(v) == [t |-> "int", v |-> v]

\* The raw values a request may carry for one field (d.GetOk's value).
Inputs(f) ==
    CASE f = keySignatureAlgorithm ->
            {StrV("RS256"), StrV("HS256"), [t |-> "int", v |-> "7"]}
      [] f = keyRSAKeyBits ->
            {IntV(4096), IntV(1024), [t |-> "string", v |-> 0]}
      [] f = keyRotationDuration ->
            {<<<<30, "m">>>>, <<<<1, "h">>, <<0, "m">>, <<0, "s">>>>, <<<<5, "x">>>>}
      [] f = keyTokenTTL ->
            {<<<<1, "m">>, <<0, "s">>>>, <<<<300, "s">>>>, <<<<1, "h">>>>, <<>>}
      [] f \in {keySetIAT, keySetJTI, keySetNBF} -> BOOLEAN
      [] f = keyIssuer -> {"vault"}
      [] f \in {keyAudiencePattern, keySubjectPattern} -> {"^a$", "("}
      [] f = keyMaxAllowedAudiences -> {-1, 3}
      [] f = keyAllowedClaims -> {<<>>, <<"aud", "scope">>, <<"scope", "exp">>}

EmptyUpdate == [f \in {} |-> 0]

\* Requests naming one field.
Singles == UNION {{(f :> v) : v \in Inputs(f)} : f \in FieldSet}

\* Requests naming every field with a legal value.
FullUpdates ==
    { [f \in FieldSet |->
         CASE f = keySignatureAlgorithm -> StrV("RS256")
           [] f = keyRSAKeyBits -> IntV(4096)
           [] f = keyRotationDuration -> period
           [] f = keyTokenTTL -> <<<<1, "m">>, <<0, "s">>>>
           [] f \in {keySetIAT, keySetJTI} -> FALSE
           [] f = keySetNBF -> TRUE
           [] f = keyIssuer -> "vault"
           [] f \in {keyAudiencePattern, keySubjectPattern} -> "^a$"
           [] f = keyMaxAllowedAudiences -> -1
           [] f = keyAllowedClaims -> <<"aud", "scope">>]
        : period \in {<<<<30, "m">>>>, <<<<1, "h">>, <<0, "m">>, <<0, "s">>>>} }

\* A full request with one field's value exchanged for another input of that field.
FullVariants ==
    UNION {{[u EXCEPT ![f] = v] : u \in FullUpdates, v \in Inputs(f)} : f \in FieldSet}

Updates == {EmptyUpdate} \cup Singles \cup FullUpdates \cup FullVariants

\* ------------------------------------------------------------------ storage

NoRecord == <<>>

NoRequest == [op |-> "none", named |-> {}, existed |-> FALSE, put |-> FALSE]

\* getConfig: the stored record, or the defaults when none is stored; a copy.
getConfig(stg) == IF stg = NoRecord THEN DefaultConfig ELSE stg[1]

\* ---------------------------------------------------------------- the handler

Ok(c) == [err |-> "", cfg |-> c]
Fail(c, e) == [err |-> e, cfg |-> c]

OverlaySignatureAlgorithm(r, u) ==
    IF r.err # "" \/ keySignatureAlgorithm \notin DOMAIN u THEN r
    ELSE LET raw == u[keySignatureAlgorithm] IN
         IF raw.t # "string" THEN Fail(r.cfg, "sig_alg must be a string")
         ELSE IF ~stringInSlice(raw.v, AllowedSignatureAlgorithmNames)
         THEN Fail(r.cfg, "unknown/unsupported signature algorithm")
         ELSE Ok([r.cfg EXCEPT !.SignatureAlgorithm = raw.v])

OverlayRSAKeyBits(r, u) ==
    IF r.err # "" \/ keyRSAKeyBits \notin DOMAIN u THEN r
    ELSE LET raw == u[keyRSAKeyBits] IN
         IF raw.t # "int" THEN Fail(r.cfg, "rsa_key_bits must be an integer")
         ELSE IF ~intInSlice(raw.v, AllowedRSAKeyBits)
         THEN Fail(r.cfg, "unsupported rsa_key_bits")
         ELSE Ok([r.cfg EXCEPT !.RSAKeyBits = raw.v])

OverlayRotationPeriod(r, u) ==
    IF r.err # "" \/ keyRotationDuration \notin DOMAIN u THEN r
    ELSE LET p == ParseDuration(u[keyRotationDuration]) IN
         IF p.err THEN Fail(r.cfg, "time: invalid duration")
         ELSE Ok([r.cfg EXCEPT !.KeyRotationPeriod = p.d])

OverlayTokenTTL(r, u) ==
    IF r.err # "" \/ keyTokenTTL \notin DOMAIN u THEN r
    ELSE LET p == ParseDuration(u[keyTokenTTL]) IN
         IF p.err THEN Fail(r.cfg, "time: invalid duration")
         ELSE Ok([r.cfg EXCEPT !.TokenTTL = p.d])

\* Mutant: the flags read with d.Get, which gives false for a field not named.
OverlayFlags_Get(r, u) ==
    IF r.err # "" THEN r
    ELSE Ok([r.cfg EXCEPT
               !.SetIAT = IF keySetIAT \in DOMAIN u THEN u[keySetIAT] ELSE FALSE,
               !.SetJTI = IF keySetJTI \in DOMAIN u THEN u[keySetJTI] ELSE FALSE,
               !.SetNBF = IF keySetNBF \in DOMAIN u THEN u[keySetNBF] ELSE FALSE])

OverlayFlags(r, u) ==
    IF r.err # "" THEN r
    ELSE Ok([r.cfg EXCEPT
               !.SetIAT = IF keySetIAT \in DOMAIN u THEN u[keySetIAT] ELSE @,
               !.SetJTI = IF keySetJTI \in DOMAIN u THEN u[keySetJTI] ELSE @,
               !.SetNBF = IF keySetNBF \in DOMAIN u THEN u[keySetNBF] ELSE @])

\* The pattern is assigned to the candidate before it is compiled.
OverlayAudiencePattern(r, u) ==
    IF r.err # "" \/ keyAudiencePattern \notin DOMAIN u THEN r
    ELSE LET c == [r.cfg EXCEPT !.AudiencePattern = u[keyAudiencePattern]] IN
         IF ~RegexpCompiles(c.AudiencePattern)
         THEN Fail(c, "invalid audience pattern")
         ELSE Ok(c)

OverlaySubjectPattern(r, u) ==
    IF r.err # "" \/ keySubjectPattern \notin DOMAIN u THEN r
    ELSE LET c == [r.cfg EXCEPT !.SubjectPattern = u[keySubjectPattern]] IN
         IF ~RegexpCompiles(c.SubjectPattern)
         THEN Fail(c, "invalid subject pattern")
         ELSE Ok(c)

OverlayMaxAudiences(r, u) ==
    IF r.err # "" \/ keyMaxAllowedAudiences \notin DOMAIN u THEN r
    ELSE Ok([r.cfg EXCEPT !.MaxAudiences = u[keyMaxAllowedAudiences]])

OverlayAllowedClaims(r, u) ==
    IF r.err # "" \/ keyAllowedClaims \notin DOMAIN u THEN r
    ELSE LET claims == u[keyAllowedClaims] IN
         IF \E i \in 1..Len(claims) : stringInSlice(claims[i], ReservedClaims)
         THEN Fail(r.cfg, "claim is reserved and not permitted in allowed_claims")
         ELSE Ok([r.cfg EXCEPT !.AllowedClaims = claims])

\* Mutant: the lease-TTL check left out.
CheckMaxLeaseTTL_Skipped(r, ceiling) == r

CheckMaxLeaseTTL(r, ceiling) ==
    IF r.err # "" THEN r
    ELSE IF r.cfg.TokenTTL > ceiling
    THEN Fail(r.cfg, "'jwt_ttl' is greater that the max lease ttl")
    ELSE r

\* pathConfigWrite between getConfig and saveConfig: the overlays in source order,
\* stopping at the first failing check, then the lease-TTL check.
ValidateAndMerge(config, u, ceiling) ==
    CheckMaxLeaseTTL(
      OverlayAllowedClaims(
        OverlayMaxAudiences(
          OverlaySubjectPattern(
            OverlayAudiencePattern(
              OverlayFlags(
                OverlayTokenTTL(
                  OverlayRotationPeriod(
                    OverlayRSAKeyBits(
                      OverlaySignatureAlgorithm(Ok(config), u), u), u), u), u), u), u), u), u),
      ceiling)

configResponse(config) ==
    [ sig_alg          |-> config.SignatureAlgorithm,
      rsa_key_bits     |-> config.RSAKeyBits,
      key_ttl          |-> DurationString(config.KeyRotationPeriod),
      jwt_ttl          |-> DurationString(config.TokenTTL),
      set_iat          |-> config.SetIAT,
      set_jti          |-> config.SetJTI,
      set_nbf          |-> config.SetNBF,
      audience_pattern |-> config.AudiencePattern,
      subject_pattern  |-> config.SubjectPattern,
      max_audiences    |-> config.MaxAudiences,
      allowed_claims   |-> config.AllowedClaims ]

\* Responses: data is <<>> or <<field map>>.
DataResponse(data) == [status |-> "ok", err |-> "", data |-> <<data>>]
EmptyResponse == [status |-> "ok", err |-> "", data |-> <<>>]
ErrorResponse(e) == [status |-> "error", err |-> e, data |-> <<>>]
StorageError == ErrorResponse("storage")

\* What saveConfig leaves in storage for a validated candidate.
saveConfig(r) == <<r.cfg>>

\* Mutant: the candidate saved before the outcome of the checks is looked at.
StorageAfterWrite_SaveOnReject(stg, r, fault) ==
    IF fault = "get" \/ fault = "put" THEN stg ELSE saveConfig(r)

\* What the handler leaves in storage, given the outcome of the checks.
\* fault: the storage call that fails in this request ("none", "get", "put").
StorageAfterWrite(stg, r, fault) ==
    IF fault = "get" \/ r.err # "" \/ fault = "put" THEN stg ELSE saveConfig(r)

\* saveConfig is reached (line 220) when getConfig succeeded and every check passed.
PutIssued(r, fault) == fault # "get" /\ r.err = ""

Served(op, named, put) ==
    /\ nOps < MaxOps
    /\ nOps' = nOps + 1
    /\ last' = [op |-> op, named |-> named, existed |-> stored # NoRecord, put |-> put]
    /\ UNCHANGED <<maxLeaseTTL, jwksVars, cw>>

pathConfigWrite(u, fault) ==
    LET r == ValidateAndMerge(getConfig(stored), u, maxLeaseTTL) IN
    /\ Served("write", DOMAIN u, PutIssued(r, fault))
    /\ stored' = StorageAfterWrite(stored, r, fault)
    /\ resp' = IF fault = "get" THEN StorageError
               ELSE IF r.err # "" THEN ErrorResponse(r.err)
               ELSE IF fault = "put" THEN StorageError
               ELSE DataResponse(configResponse(r.cfg))

pathConfigRead(fault) ==
    /\ Served("read", {}, FALSE)
    /\ resp' = IF fault = "get" THEN StorageError
               ELSE DataResponse(configResponse(getConfig(stored)))
    /\ UNCHANGED stored

\* Mutant: deleting an absent record reported as an error.
pathConfigDelete_NotIdempotent(fault) ==
    /\ Served("delete", {}, FALSE)
    /\ stored' = IF fault = "delete" THEN stored ELSE NoRecord
    /\ resp' = IF fault = "delete" THEN StorageError
               ELSE IF stored = NoRecord THEN ErrorResponse("no configuration stored")
               ELSE EmptyResponse

\* clearConfig deletes the record at configPath.
pathConfigDelete(fault) ==
    /\ Served("delete", {}, FALSE)
    /\ stored' = IF fault = "delete" THEN stored ELSE NoRecord
    /\ resp' = IF fault = "delete" THEN StorageError ELSE EmptyResponse

\* The host's lease-TTL ceilings: fixed for a mount, and not below the default token
\* TTL (the Config invariant holds of the defaults).
Ceilings == {DefaultTokenTTL, 2 * DefaultTokenTTL}

\* ------------------------------------------------------------------ key policy

KeyType_ED25519 == "ed25519"
KeyTypes == {KeyType_ED25519, "ecdsa-p256", "rsa-2048"}

NilRSAKey == "nil"

\* A key version: its formatted public key (a string) and its typed RSA key.
KeyEntries ==
    { [FormattedPublicKey |-> "b64:ed25519",   RSAKey |-> NilRSAKey],
      [FormattedPublicKey |-> "%%",            RSAKey |-> NilRSAKey],
      [FormattedPublicKey |-> "PEM{pkix}",     RSAKey |-> NilRSAKey],
      [FormattedPublicKey |-> "PEM{junk}",     RSAKey |-> NilRSAKey],
      [FormattedPublicKey |-> "",              RSAKey |-> "rsa"],
      [FormattedPublicKey |-> "",              RSAKey |-> NilRSAKey] }

\* base64.StdEncoding.DecodeString succeeds (the empty string decodes to no bytes).
Base64Decodes(s) == s \in {"b64:ed25519", ""}
\* pem.Decode finds a block.
PemDecodes(s) == s \in {"PEM{pkix}", "PEM{junk}"}
\* x509.ParsePKIXPublicKey accepts the block's bytes.
PkixParses(s) == s = "PEM{pkix}"

backendId == "backend-uuid"

\* createKeyId: a pure function of the backend id, the policy name and the version.
createKeyId(id, name, version) == <<id, name, version>>

NilKey == [kind |-> "nil", of |-> ""]

\* The zero jose.JSONWebKey.
ZeroJWK == [Key |-> NilKey, KeyID |-> <<>>, Algorithm |-> "", Use |-> ""]

\* make([]jose.JSONWebKey, keyCount): keyCount zero entries.
MakeKeys(keyCount) == [i \in 1..keyCount |-> ZeroJWK]

\* Lines 123-126: the entry at keyIdx gets its id, algorithm and use; keyIdx advances.
Emit(l, pol, material) ==
    [l EXCEPT
       !.Keys[l.keyIdx + 1] =
           [Key |-> material,
            KeyID |-> createKeyId(backendId, pol.Name, l.version),
            Algorithm |-> l.config.SignatureAlgorithm,
            Use |-> "sig"],
       !.keyIdx = l.keyIdx + 1,
       !.version = l.version + 1]

\* One iteration of the loop over versions (lines 92-127).
LoopBody(l, pol) ==
    LET continue == [l EXCEPT !.version = l.version + 1] IN
    IF l.version \notin DOMAIN pol.Keys THEN continue
    ELSE LET key == pol.Keys[l.version] IN
         IF pol.Type = KeyType_ED25519
         THEN IF ~Base64Decodes(key.FormattedPublicKey) THEN continue
              ELSE Emit(l, pol, [kind |-> "ed25519", of |-> key.FormattedPublicKey])
         ELSE IF key.FormattedPublicKey # ""
         THEN IF ~PemDecodes(key.FormattedPublicKey) THEN continue
              ELSE IF ~PkixParses(key.FormattedPublicKey) THEN continue
              ELSE Emit(l, pol, [kind |-> "pkix", of |-> key.FormattedPublicKey])
         ELSE IF key.RSAKey # NilRSAKey
         THEN Emit(l, pol, [kind |-> "rsa", of |-> key.RSAKey])
         ELSE Emit(l, pol, NilKey)

\* policy.Lock(exclusive) and policy.Unlock() of call c on the lock state.
PolicyLock(lk, c, exclusive) ==
    IF exclusive THEN [lk EXCEPT !.writer = c]
    ELSE [lk EXCEPT !.readers[c] = @ + 1]

PolicyUnlock(lk, c) ==
    IF lk.writer = c
    THEN [lk EXCEPT !.writer = 0, !.unlocks[c] = @ + 1]
    ELSE [lk EXCEPT !.readers[c] = @ - 1, !.unlocks[c] = @ + 1]

Callers == DOMAIN pc

NoReaders(lk) == \A c \in DOMAIN lk.readers : lk.readers[c] = 0

\* A read lock is granted when no writer holds the lock and none waits for it.
CanRLock(lk) == lk.writer = 0 /\ rot # "waiting"

NoLocals == [config |-> DefaultConfig, version |-> 0, keyIdx |-> 0, Keys |-> <<>>]
NoReturn == [status |-> "none", Keys |-> <<>>]

\* Lines 71-74.
GetConfigStep(c, fault) ==
    /\ pc[c] = "getConfig"
    /\ IF fault
       THEN /\ pc' = [pc EXCEPT ![c] = "failed"]
            /\ ret' = [ret EXCEPT ![c] = [status |-> "error", Keys |-> <<>>]]
            /\ UNCHANGED loc
       ELSE /\ pc' = [pc EXCEPT ![c] = "getPolicy"]
            /\ loc' = [loc EXCEPT ![c].config = getConfig(stored)]
            /\ UNCHANGED ret
    /\ UNCHANGED <<configVars, policy, lock, rot, cw>>

\* Lines 76-79.
GetPolicyStep(c, fault) ==
    /\ pc[c] = "getPolicy"
    /\ IF fault
       THEN /\ pc' = [pc EXCEPT ![c] = "failed"]
            /\ ret' = [ret EXCEPT ![c] = [status |-> "error", Keys |-> <<>>]]
       ELSE /\ pc' = [pc EXCEPT ![c] = "lock"]
            /\ UNCHANGED ret
    /\ UNCHANGED <<configVars, policy, loc, lock, rot, cw>>

\* Lines 81-91: the read lock, then the key set of keyCount entries.
LockStep(c) ==
    /\ pc[c] = "lock"
    /\ CanRLock(lock)
    /\ lock' = PolicyLock(lock, c, FALSE)
    /\ loc' = [loc EXCEPT
                 ![c].Keys = MakeKeys((policy.LatestVersion - policy.MinDecryptionVersion) + 1),
                 ![c].keyIdx = 0,
                 ![c].version = policy.MinDecryptionVersion]
    /\ pc' = [pc EXCEPT ![c] = "loop"]
    /\ UNCHANGED <<configVars, policy, ret, rot, cw>>

\* Lines 92-127, one version per step.
LoopStep(c) ==
    /\ pc[c] = "loop"
    /\ IF loc[c].version <= policy.LatestVersion
       THEN /\ loc' = [loc EXCEPT ![c] = LoopBody(loc[c], policy)]
            /\ UNCHANGED pc
       ELSE /\ pc' = [pc EXCEPT ![c] = "return"]
            /\ UNCHANGED loc
    /\ UNCHANGED <<configVars, policy, ret, lock, rot, cw>>

\* Mutant: the return without the deferred Unlock.
ReturnStep_NoUnlock(c) ==
    /\ pc[c] = "return"
    /\ ret' = [ret EXCEPT ![c] = [status |-> "ok", Keys |-> loc[c].Keys]]
    /\ pc' = [pc EXCEPT ![c] = "done"]
    /\ UNCHANGED <<configVars, policy, loc, lock, rot, cw>>

\* Line 129, and the deferred Unlock of line 82.
ReturnStep(c) ==
    /\ pc[c] = "return"
    /\ ret' = [ret EXCEPT ![c] = [status |-> "ok", Keys |-> loc[c].Keys]]
    /\ lock' = PolicyUnlock(lock, c)
    /\ pc' = [pc EXCEPT ![c] = "done"]
    /\ UNCHANGED <<configVars, policy, loc, rot, cw>>

getPublicKeys(c) ==
    \/ \E fault \in BOOLEAN : GetConfigStep(c, fault)
    \/ \E fault \in BOOLEAN : GetPolicyStep(c, fault)
    \/ LockStep(c)
    \/ LoopStep(c)
    \/ ReturnStep(c)

\* ------------------------------------------------------- key rotation (external)

\* The key a rotation adds: of the policy's type.
FreshKey(type) ==
    IF type = KeyType_ED25519 THEN [FormattedPublicKey |-> "b64:ed25519", RSAKey |-> NilRSAKey]
    ELSE IF type = "rsa-2048" THEN [FormattedPublicKey |-> "", RSAKey |-> "rsa"]
    ELSE [FormattedPublicKey |-> "PEM{pkix}", RSAKey |-> NilRSAKey]

Rotated(pol) ==
    LET v == pol.LatestVersion + 1 IN
    [pol EXCEPT !.LatestVersion = v,
                !.Keys = [w \in DOMAIN pol.Keys \cup {v} |->
                            IF w = v THEN FreshKey(pol.Type) ELSE pol.Keys[w]]]

RotateRequest ==
    /\ rot = "idle"
    /\ policy.LatestVersion < MaxVersion
    /\ rot' = "waiting"
    /\ UNCHANGED <<configVars, policy, pc, loc, ret, lock, cw>>

RotateAcquire ==
    /\ rot = "waiting"
    /\ lock.writer = 0 /\ NoReaders(lock)
    /\ lock' = [lock EXCEPT !.writer = -1]
    /\ rot' = "holding"
    /\ UNCHANGED <<configVars, policy, pc, loc, ret, cw>>

RotateRelease ==
    /\ rot = "holding"
    /\ policy' = Rotated(policy)
    /\ lock' = [lock EXCEPT !.writer = 0]
    /\ rot' = "idle"
    /\ UNCHANGED <<configVars, pc, loc, ret, cw>>

\* ------------------------------------------------------------- specifications

NoPolicy ==
    [Name |-> "jwt", Type |-> KeyType_ED25519, MinDecryptionVersion |-> 1,
     LatestVersion |-> 1, Keys |-> <<>>]

NoLock == [readers |-> <<>>, writer |-> 0, unlocks |-> <<>>]

NoWrites == [pc |-> <<>>, upd |-> <<>>, cfg |-> <<>>, put |-> <<>>, log |-> <<>>]

JwksIdle ==
    /\ policy = NoPolicy
    /\ pc = <<>>
    /\ loc = <<>>
    /\ ret = <<>>
    /\ lock = NoLock
    /\ rot = "idle"

Init ==
    /\ stored = NoRecord
    /\ maxLeaseTTL \in Ceilings
    /\ last = NoRequest
    /\ resp = EmptyResponse
    /\ nOps = 0
    /\ JwksIdle
    /\ cw = NoWrites

Next ==
    \/ \E u \in Updates, fault \in {"none", "get", "put"} : pathConfigWrite(u, fault)
    \/ \E fault \in {"none", "get"} : pathConfigRead(fault)
    \/ \E fault \in {"none", "delete"} : pathConfigDelete(fault)

Spec == Init /\ [][Next]_vars

\* The key policies of a mount with live range mn..mx: a type, and keys for some
\* of the versions.
Snapshots(mn, mx) ==
    { [Name |-> "jwt", Type |-> t, MinDecryptionVersion |-> mn, LatestVersion |-> mx,
       Keys |-> ks] :
        t \in KeyTypes,
        ks \in UNION {[S -> KeyEntries] : S \in SUBSET (1..MaxVersion)} }

StoredConfigs == {NoRecord, <<[DefaultConfig EXCEPT !.SignatureAlgorithm = "RS256"]>>}

CallsInit(n) ==
    /\ pc = [c \in 1..n |-> "getConfig"]
    /\ loc = [c \in 1..n |-> NoLocals]
    /\ ret = [c \in 1..n |-> NoReturn]
    /\ lock = [readers |-> [c \in 1..n |-> 0], writer |-> 0, unlocks |-> [c \in 1..n |-> 0]]
    /\ rot = "idle"

ConfigIdle ==
    /\ maxLeaseTTL \in {2 * DefaultTokenTTL}
    /\ last = NoRequest
    /\ resp = EmptyResponse
    /\ nOps = 0

\* One key-set read of any policy.
InitJwks ==
    /\ stored \in StoredConfigs
    /\ ConfigIdle
    /\ \E mn \in 1..MaxVersion : \E mx \in mn..MaxVersion : policy \in Snapshots(mn, mx)
    /\ CallsInit(1)
    /\ cw = NoWrites

NextJwks ==
    \/ \E c \in Callers, fault \in BOOLEAN : GetConfigStep(c, fault)
    \/ \E c \in Callers, fault \in BOOLEAN : GetPolicyStep(c, fault)
    \/ \E c \in Callers : LockStep(c)
    \/ \E c \in Callers : LoopStep(c)
    \/ \E c \in Callers : ReturnStep(c)

SpecJwks == InitJwks /\ [][NextJwks]_vars

\* Policies whose keys take every exit of the loop body: a pruned version, a key that
\* is not base64, a key that is not PEM, a PEM block that is not PKIX, good keys.
LockPolicies ==
    { [Name |-> "jwt", Type |-> KeyType_ED25519, MinDecryptionVersion |-> 1,
       LatestVersion |-> 2,
       Keys |-> (1 :> [FormattedPublicKey |-> "%%", RSAKey |-> NilRSAKey]) @@
                (2 :> [FormattedPublicKey |-> "b64:ed25519", RSAKey |-> NilRSAKey])],
      [Name |-> "jwt", Type |-> "ecdsa-p256", MinDecryptionVersion |-> 1,
       LatestVersion |-> 2,
       Keys |-> (1 :> [FormattedPublicKey |-> "%%", RSAKey |-> NilRSAKey]) @@
                (2 :> [FormattedPublicKey |-> "PEM{junk}", RSAKey |-> NilRSAKey])],
      [Name |-> "jwt", Type |-> "rsa-2048", MinDecryptionVersion |-> 1,
       LatestVersion |-> 2,
       Keys |-> (2 :> [FormattedPublicKey |-> "", RSAKey |-> "rsa"])] }

\* Concurrent key-set reads beside a key rotation.
InitLock ==
    /\ stored = NoRecord
    /\ ConfigIdle
    /\ policy \in LockPolicies
    /\ CallsInit(NumCallers)
    /\ cw = NoWrites

NextLock ==
    \/ NextJwks
    \/ RotateRequest
    \/ RotateAcquire
    \/ RotateRelease

\* Every call and the rotation run on goroutines of their own: each keeps
\* taking steps while it can.
SpecLock ==
    /\ InitLock
    /\ [][NextLock]_vars
    /\ \A c \in 1..NumCallers : WF_vars(getPublicKeys(c))
    /\ WF_vars(RotateAcquire)
    /\ WF_vars(RotateRelease)

\* ------------------------------------------------- two concurrent config writes

Writers == {1, 2}

\* Lines 129-132 of one write: the Config it will overlay.
ConcGet(w) ==
    /\ cw.pc[w] = "get"
    /\ cw' = [cw EXCEPT !.pc[w] = "put",
                        !.cfg[w] = getConfig(stored),
                        !.log = Append(@, <<"get", w>>)]
    /\ UNCHANGED <<stored, configVarsRest, jwksVars>>

\* Mutant: the overlays applied to the defaults, not to the Config read.
ConcPut_OverDefaults(w) ==
    LET r == ValidateAndMerge(DefaultConfig, cw.upd[w], maxLeaseTTL) IN
    /\ cw.pc[w] = "put"
    /\ stored' = StorageAfterWrite(stored, r, "none")
    /\ cw' = [cw EXCEPT !.pc[w] = IF r.err = "" THEN "done" ELSE "rejected",
                        !.put[w] = r.cfg,
                        !.log = Append(@, <<"put", w>>)]
    /\ UNCHANGED <<configVarsRest, jwksVars>>

\* Lines 134-224 of one write: the checks, then saveConfig.
ConcPut(w) ==
    LET r == ValidateAndMerge(cw.cfg[w], cw.upd[w], maxLeaseTTL) IN
    /\ cw.pc[w] = "put"
    /\ stored' = StorageAfterWrite(stored, r, "none")
    /\ cw' = [cw EXCEPT !.pc[w] = IF r.err = "" THEN "done" ELSE "rejected",
                        !.put[w] = r.cfg,
                        !.log = Append(@, <<"put", w>>)]
    /\ UNCHANGED <<configVarsRest, jwksVars>>

\* Two requests naming disjoint fields.
InitConc ==
    /\ stored = NoRecord
    /\ maxLeaseTTL \in Ceilings
    /\ last = NoRequest
    /\ resp = EmptyResponse
    /\ nOps = 0
    /\ JwksIdle
    /\ \E u1 \in Singles, u2 \in Singles :
          /\ DOMAIN u1 \cap DOMAIN u2 = {}
          /\ cw = [pc |-> [w \in Writers |-> "get"],
                   upd |-> <<u1, u2>>,
                   cfg |-> [w \in Writers |-> DefaultConfig],
                   put |-> [w \in Writers |-> DefaultConfig],
                   log |-> <<>>]

NextConc ==
    \/ \E w \in Writers : ConcGet(w)
    \/ \E w \in Writers : ConcPut(w)

SpecConc == InitConc /\ [][NextConc]_vars

\* ================================================================== properties

\* The value of the Config field that schema field f names.
FieldOf(config, f) ==
    CASE f = keySignatureAlgorithm -> config.SignatureAlgorithm
      [] f = keyRSAKeyBits -> config.RSAKeyBits
      [] f = keyRotationDuration -> config.KeyRotationPeriod
      [] f = keyTokenTTL -> config.TokenTTL
      [] f = keySetIAT -> config.SetIAT
      [] f = keySetJTI -> config.SetJTI
      [] f = keySetNBF -> config.SetNBF
      [] f = keyIssuer -> config.Issuer
      [] f = keyAudiencePattern -> config.AudiencePattern
      [] f = keySubjectPattern -> config.SubjectPattern
      [] f = keyMaxAllowedAudiences -> config.MaxAudiences
      [] f = keyAllowedClaims -> config.AllowedClaims

\* The value a request carries for field f, as the caller wrote it.
WrittenValue(u, f) ==
    IF f \in {keySignatureAlgorithm, keyRSAKeyBits} THEN u[f].v ELSE u[f]

\* What a config read returns in a state whose storage is stg.
ReadBack(stg) == configResponse(getConfig(stg))

\* The errors of pathConfigWrite's checks.
CheckErrors ==
    { "sig_alg must be a string", "unknown/unsupported signature algorithm",
      "rsa_key_bits must be an integer", "unsupported rsa_key_bits",
      "time: invalid duration", "invalid audience pattern", "invalid subject pattern",
      "claim is reserved and not permitted in allowed_claims",
      "'jwt_ttl' is greater that the max lease ttl" }

WriteStep == nOps' = nOps + 1 /\ last'.op = "write"
ReadStep == nOps' = nOps + 1 /\ last'.op = "read"
DeleteStep == nOps' = nOps + 1 /\ last'.op = "delete"

\* C1: a config write rejected by any check issues no storage put and leaves the
\* stored Config exactly as it was, whatever other fields the request names.
C1_RejectedWriteChangesNothing ==
    [][(WriteStep /\ resp'.err \in CheckErrors) =>
         (~last'.put /\ stored' = stored)]_vars

\* A stored record exists and a request naming every field was rejected by the last
\* check of the order, the lease-TTL ceiling.
C1_Witness ==
    /\ last.op = "write"
    /\ last.named = FieldSet
    /\ last.existed
    /\ resp.err = "'jwt_ttl' is greater that the max lease ttl"

\* C5: a successful write of every writable field to legal values, then a read,
\* returns exactly the written value of each field, and so does the write's response.
C5_RoundTrip ==
    [][\A u \in FullUpdates :
         (pathConfigWrite(u, "none") /\ resp'.status = "ok") =>
            /\ resp'.data = <<ReadBack(stored')>>
            /\ \A f \in FieldSet :
                  /\ f \in DOMAIN ReadBack(stored')
                  /\ ReadBack(stored')[f] = WrittenValue(u, f)]_vars

C7_UnnamedFieldsKept ==
    [][/\ (WriteStep /\ resp'.status = "ok") =>
            \A f \in FieldSet \ last'.named :
               FieldOf(getConfig(stored'), f) = FieldOf(getConfig(stored), f)
       /\ ReadStep => stored' = stored]_vars

\* A write naming one field succeeded over a record that differs from the defaults
\* in another field.
C7_Witness ==
    /\ last.op = "write"
    /\ resp.status = "ok"
    /\ last.named = {keyMaxAllowedAudiences}
    /\ last.existed
    /\ stored[1].SetIAT # DefaultConfig.SetIAT

\* C9 as claimed: a config delete always succeeds and removes the record.
C9_DeleteAlwaysSucceeds ==
    [][DeleteStep => (resp' = EmptyResponse /\ stored' = NoRecord)]_vars

\* C9 as amended: a delete checks nothing; it fails only when the storage delete
\* fails, and then the record stays; otherwise the record is gone, whether or not
\* one was stored, and a read then returns the defaults.
C9_DeleteRemovesUnlessStorageFails ==
    [][DeleteStep =>
         /\ resp' \in {EmptyResponse, StorageError}
         /\ resp' = StorageError => stored' = stored
         /\ resp' = EmptyResponse =>
               /\ stored' = NoRecord
               /\ ReadBack(stored') = configResponse(DefaultConfig)]_vars

\* A stored record was deleted.
C9_Witness ==
    /\ last.op = "delete"
    /\ last.existed
    /\ resp = EmptyResponse
    /\ stored = NoRecord

\* ------------------------------------------------------------- key-set properties

\* The key material of a key version is materialized: one of the three cases
\* applies and its decoding succeeds.
Materialized(type, key) ==
    IF type = KeyType_ED25519 THEN Base64Decodes(key.FormattedPublicKey)
    ELSE IF key.FormattedPublicKey # ""
    THEN PemDecodes(key.FormattedPublicKey) /\ PkixParses(key.FormattedPublicKey)
    ELSE key.RSAKey # NilRSAKey

\* A key version whose decoding fails.
DecodeFails(type, key) ==
    IF type = KeyType_ED25519 THEN ~Base64Decodes(key.FormattedPublicKey)
    ELSE /\ key.FormattedPublicKey # ""
         /\ ~(PemDecodes(key.FormattedPublicKey) /\ PkixParses(key.FormattedPublicKey))

Range(pol) == pol.MinDecryptionVersion..pol.LatestVersion

\* The versions of the range, ascending, that are present and materialized.
RECURSIVE LiveFrom(_, _)
LiveFrom(pol, v) ==
    IF v > pol.LatestVersion THEN <<>>
    ELSE IF v \in DOMAIN pol.Keys /\ Materialized(pol.Type, pol.Keys[v])
    THEN <<v>> \o LiveFrom(pol, v + 1)
    ELSE LiveFrom(pol, v + 1)

LiveVersions(pol) == LiveFrom(pol, pol.MinDecryptionVersion)

\* C2: the key set holds exactly one entry per version of the range that is present
\* and materialized, in ascending order, and no other entry.
C2_ExactlyLiveVersions ==
    \A c \in Callers :
       pc[c] = "done" =>
          /\ Len(ret[c].Keys) = Len(LiveVersions(policy))
          /\ \A i \in 1..Len(ret[c].Keys) :
                ret[c].Keys[i].KeyID =
                   createKeyId(backendId, policy.Name, LiveVersions(policy)[i])

\* C3: the key set has at most latest - min + 1 entries, and exactly that many iff
\* no version of the range is missing and none failed to decode.
C3_SizeBound ==
    \A c \in Callers :
       pc[c] = "done" =>
          LET bound == policy.LatestVersion - policy.MinDecryptionVersion + 1 IN
          /\ Len(ret[c].Keys) <= bound
          /\ Len(ret[c].Keys) = bound <=>
                \A v \in Range(policy) :
                   v \in DOMAIN policy.Keys /\ ~DecodeFails(policy.Type, policy.Keys[v])

\* C4: every entry of the key set has use "sig", the algorithm of the Config the
\* call read, and the key id of a version of the range.
C4_EveryEntryDescribed ==
    \A c \in Callers :
       pc[c] = "done" =>
          \A i \in 1..Len(ret[c].Keys) :
             /\ ret[c].Keys[i].Use = "sig"
             /\ ret[c].Keys[i].Algorithm = loc[c].config.SignatureAlgorithm
             /\ \E v \in Range(policy) :
                   ret[c].Keys[i].KeyID = createKeyId(backendId, policy.Name, v)

\* ----------------------------------------------------------------- lock properties

C8_LockDiscipline ==
    /\ lock.writer \in {0, -1}
    /\ lock.writer # 0 => NoReaders(lock)
    /\ \A c \in Callers :
          /\ pc[c] \in {"getConfig", "getPolicy", "lock", "failed"} =>
                lock.readers[c] = 0 /\ lock.unlocks[c] = 0
          /\ pc[c] \in {"loop", "return"} =>
                lock.readers[c] = 1 /\ lock.unlocks[c] = 0
          /\ pc[c] = "done" =>
                lock.readers[c] = 0 /\ lock.unlocks[c] = 1

\* C8: a call that obtained the policy holds the lock in read mode only, from before
\* the loop until it returns, and has released it exactly once when it has returned;
\* a call that failed earlier never took it; a waiting rotation gets the lock.
C8_ReadLockHeldAndReleased ==
    /\ []C8_LockDiscipline
    /\ (rot = "waiting") ~> (rot = "holding")

\* One call returned a key set, another failed before it had the policy, and the
\* rotation holds the lock it waited for.
C8_Witness ==
    /\ \E c \in Callers : pc[c] = "done" /\ ret[c].status = "ok"
    /\ \E c \in Callers : pc[c] = "failed"
    /\ rot = "holding"

\* -------------------------------------------------------- concurrent-write properties

BothDone == \A w \in Writers : cw.pc[w] = "done"

\* The writer whose put came last, and the other one.
LastWriter == cw.log[Len(cw.log)][2]
FirstWriter == CHOOSE w \in Writers : w # LastWriter

\* One write's put came before the other write's get.
Serial == cw.log[2][1] = "put"

\* The stored Config holds, in the fields w's request names, what w's put stored.
Carries(w) ==
    \A f \in DOMAIN cw.upd[w] :
       FieldOf(getConfig(stored), f) = FieldOf(cw.put[w], f)

\* C10 as claimed: after two passing concurrent writes of disjoint fields, the
\* stored Config carries the values of both, for every interleaving.
C10_NoLostUpdate == BothDone => (Carries(1) /\ Carries(2))

\* C10 as amended: the stored Config carries the values of the write whose put came
\* last; it carries the other write's values when that write's put came before the
\* last writer's get, and otherwise holds, in the other write's fields, the values
\* the last writer read.
C10_LastPutWins ==
    BothDone =>
       /\ Carries(LastWriter)
       /\ Serial => Carries(FirstWriter)
       /\ ~Serial =>
             \A f \in DOMAIN cw.upd[FirstWriter] :
                FieldOf(getConfig(stored), f) = FieldOf(cw.cfg[LastWriter], f)

\* Both writes passed, one after the other, and both changed the stored Config.
C10_Witness ==
    /\ BothDone
    /\ Serial
    /\ \A w \in Writers :
          \E f \in DOMAIN cw.upd[w] :
             FieldOf(getConfig(stored), f) # FieldOf(DefaultConfig, f)

====
